---- MODULE Spec2Model ----
(***************************************************************************)
(* Model of main.py, the daily-routine digest script: one run of the       *)
(* script from start-up to process exit.  The run reads three environment  *)
(* variables, loads four JSON files, builds four text sections, asks the   *)
(* advice service for a sentence, composes the message and posts it to the *)
(* messaging endpoint.                                                     *)
(*                                                                         *)
(* Strings of the program are TLA+ strings.  A JSON object is a record     *)
(* whose fields are its keys; a key the object lacks holds NoKey.  A time  *)
(* range "H:MM AM-H:MM PM" is the pair of its two parts, each the fields   *)
(* the strptime format reads.  A section is its placeholder sentence or    *)
(* the sequence of its rendered lines.                                     *)
(***************************************************************************)
EXTENDS Integers, Sequences, FiniteSets, TLC

\* ----------------------------------------------------------------- bounds
\* Total number of records over the four JSON files of one run.
MaxRecords == 2

\* -------------------------------------------------------- python helpers
\* A key that a JSON object does not have.
NoKey == "<no key>"
\* os.getenv of a variable that is not set.
None == "<None>"

\* dict.get(k, default)
Get(d, k, default) == IF d[k] = NoKey THEN default ELSE d[k]

\* Truthiness of an optional string: None and "" are falsy.
Truthy(s) == s # None /\ s # ""

\* str.lower() on the day names the routine file can hold.
Lower(s) ==
    CASE s = "Wednesday" -> "wednesday"
      [] s = "WEDNESDAY" -> "wednesday"
      [] s = "Thursday"  -> "thursday"
      [] s = "THURSDAY"  -> "thursday"
      [] OTHER -> s

\* str.strip() on the texts the advice service can return.
Strip(s) ==
    CASE s = "  Stay focused!\n" -> "Stay focused!"
      [] s = " "                 -> ""
      [] OTHER -> s

\* ------------------------------------------------------ date context (9-18)
Digits == <<"0", "1", "2", "3", "4", "5", "6", "7", "8", "9">>
Digit(n) == Digits[n + 1]
\* %d and %m: zero-padded two digits; %Y: four digits.
Pad2(n) == Digit(n \div 10) \o Digit(n % 10)
Pad4(n) == Pad2(n \div 100) \o Pad2(n % 100)

DayNames == <<"Sunday", "Monday", "Tuesday", "Wednesday", "Thursday",
              "Friday", "Saturday">>
MonthNames == <<"January", "February", "March", "April", "May", "June", "July",
                "August", "September", "October", "November", "December">>

\* Day of the week of a calendar date, 0 = Sunday.
MonthOffset == <<0, 3, 2, 5, 0, 3, 5, 1, 4, 6, 2, 4>>
Weekday(t) ==
    LET y == IF t.month < 3 THEN t.year - 1 ELSE t.year
    IN  (y + (y \div 4) - (y \div 100) + (y \div 400)
           + MonthOffset[t.month] + t.day) % 7

\* The dates datetime.now(TIMEZONE) yields in the runs considered.
TodayChoices ==
    { [year |-> 2025, month |-> 7, day |-> 16],
      [year |-> 2025, month |-> 7, day |-> 17] }

\* strftime('%A'), strftime('%Y-%m-%d'), strftime('%B %d'), strftime('%A, %B %d')
DayNameOf(t) == DayNames[Weekday(t) + 1]
DateStrYMD(t) == Pad4(t.year) \o "-" \o Pad2(t.month) \o "-" \o Pad2(t.day)
DateStrMonthDay(t) == MonthNames[t.month] \o " " \o Pad2(t.day)
FormattedDate(t) == DayNameOf(t) \o ", " \o DateStrMonthDay(t)

\* ------------------------------------------------------------ input data
\* Start and end parts of the time ranges of the routine file.
Clock(h, m, p) == [hh |-> h, mm |-> m, ap |-> p]
TimeRange(s) == [start |-> s, end |-> Clock(11, 59, "PM")]
StartClocks ==
    { Clock(12, 30, "PM"), Clock(1, 0, "PM"), Clock(12, 15, "AM"),
      Clock(1, 0, "AM"), Clock(13, 0, "PM") }

ClassEntry(d, s) ==
    [day |-> d, time |-> TimeRange(s),
     course |-> IF s.ap = "PM" THEN "CSE101" ELSE "MAT201",
     room |-> "R-402", floor |-> "4th floor"]
ClassEntries ==
    { ClassEntry("WEDNESDAY", s) : s \in StartClocks }
        \cup { ClassEntry("Thursday", Clock(12, 30, "PM")),
               ClassEntry("Thursday", Clock(13, 0, "PM")),
               ClassEntry(NoKey, Clock(13, 0, "PM")) }

LearningTasks ==
    { [date |-> "July 16", task |-> "Read chapter 3"],
      [date |-> "July 17", task |-> "Solve problem set"],
      [date |-> NoKey, task |-> "Undated task"] }

Deadlines ==
    { [date |-> "2025-07-16", task |-> "A"],
      [date |-> "2025-07-17", task |-> "B"],
      [date |-> "2025-07-20", task |-> "C"],
      [date |-> "2025-07-01", task |-> "D"],
      [date |-> NoKey, task |-> "E"] }

SpecialEvents ==
    { [date |-> "2025-07-16", event |-> "Seminar", time |-> "3:00 PM",
       location |-> "Auditorium"],
      [date |-> "2025-07-17", event |-> "Club fair", time |-> "10:00 AM",
       location |-> "Field"],
      [date |-> NoKey, event |-> "Undated event", time |-> "9:00 AM",
       location |-> "Hall"] }

\* Lists of at most n records drawn from S.
ListsUpTo(S, n) == UNION { [1..k -> S] : k \in 0..n }

\* ------------------------------------------------------- section builders
\* What a builder hands back: the exception it raised ("" when it returned),
\* and the returned text as a placeholder sentence or rendered lines.
Returned(p, ls) == [raised |-> "", placeholder |-> p, lines |-> ls]
Raised(e) == [raised |-> e, placeholder |-> "", lines |-> <<>>]

\* datetime.strptime(s, "%I:%M %p"): the parsed time of day, or ValueError.
StrptimeOk(s) == s.hh \in 1..12 /\ s.mm \in 0..59 /\ s.ap \in {"AM", "PM"}
\* Variant: the hour of %I is not wrapped at 12.
StrptimeHourNotWrapped(s) == (s.hh + (IF s.ap = "PM" THEN 12 ELSE 0)) * 60 + s.mm
Strptime(s) == ((s.hh % 12) + (IF s.ap = "PM" THEN 12 ELSE 0)) * 60 + s.mm

\* x['time'].split('-')[0].strip()
StartPart(c) == c.time.start

\* list.sort(key=...) is stable: element i lands after every element with a
\* smaller key and every earlier element with an equal key.
\* key[i] is the value of the key function on s[i].
SortByKey(s, key) ==
    LET n == Len(s)
        Rank(i) == Cardinality({ j \in 1..n :
                       \/ key[j] < key[i]
                       \/ key[j] = key[i] /\ j < i }) + 1
    IN  [p \in 1..n |-> s[CHOOSE i \in 1..n : Rank(i) = p]]

ClassLine(c) ==
    [course |-> c.course, time |-> c.time, room |-> c.room, floor |-> c.floor]

\* Variant: without the `if not routine` check (33-34).
get_todays_classes_no_empty_check(routine, DAY_NAME) ==
    LET Today(c) == Lower(Get(c, "day", "")) = Lower(DAY_NAME)
        todays_classes == SelectSeq(routine, Today)
        key == [i \in 1..Len(todays_classes) |->
                  Strptime(StartPart(todays_classes[i]))]
    IN  IF todays_classes = <<>>
          THEN Returned("No classes today. Enjoy the free time!", <<>>)
        ELSE IF \E i \in 1..Len(todays_classes) :
                   ~StrptimeOk(StartPart(todays_classes[i]))
          THEN Raised("ValueError")
        ELSE LET sorted == SortByKey(todays_classes, key)
             IN  Returned("", [i \in 1..Len(sorted) |-> ClassLine(sorted[i])])

\* Variant: entries whose start time does not parse are skipped.
get_todays_classes_skip_malformed(routine, DAY_NAME) ==
    IF routine = <<>> THEN Returned("No classes found in routine file.", <<>>)
    ELSE
      LET Today(c) == /\ Lower(Get(c, "day", "")) = Lower(DAY_NAME)
                      /\ StrptimeOk(StartPart(c))
          todays_classes == SelectSeq(routine, Today)
          key == [i \in 1..Len(todays_classes) |->
                    Strptime(StartPart(todays_classes[i]))]
      IN  IF todays_classes = <<>>
            THEN Returned("No classes today. Enjoy the free time!", <<>>)
          ELSE LET sorted == SortByKey(todays_classes, key)
               IN  Returned("", [i \in 1..Len(sorted) |-> ClassLine(sorted[i])])

get_todays_classes(routine, DAY_NAME) ==
    IF routine = <<>> THEN Returned("No classes found in routine file.", <<>>)
    ELSE
      LET Today(c) == Lower(Get(c, "day", "")) = Lower(DAY_NAME)
          todays_classes == SelectSeq(routine, Today)
          key == [i \in 1..Len(todays_classes) |->
                    Strptime(StartPart(todays_classes[i]))]
      IN  IF todays_classes = <<>>
            THEN Returned("No classes today. Enjoy the free time!", <<>>)
          ELSE IF \E i \in 1..Len(todays_classes) :
                     ~StrptimeOk(StartPart(todays_classes[i]))
            THEN Raised("ValueError")
          ELSE LET sorted == SortByKey(todays_classes, key)
               IN  Returned("", [i \in 1..Len(sorted) |-> ClassLine(sorted[i])])

get_todays_learning(plan, DATE_STR_MONTH_DAY) ==
    IF plan = <<>> THEN Returned("No self-learning plan found.", <<>>)
    ELSE
      LET Today(p) == Get(p, "date", None) = DATE_STR_MONTH_DAY
          todays == SelectSeq(plan, Today)
      IN  IF todays = <<>>
            THEN Returned("No specific learning tasks for today.", <<>>)
          ELSE Returned("", [i \in 1..Len(todays) |-> [task |-> todays[i].task]])

\* Variant: d['date'] in place of d.get('date').
get_todays_deadlines_subscript(deadlines, DATE_STR_YMD) ==
    IF deadlines = <<>> THEN Returned("No deadlines found.", <<>>)
    ELSE IF \E i \in 1..Len(deadlines) : deadlines[i].date = NoKey
      THEN Raised("KeyError")
    ELSE
      LET Today(d) == d.date = DATE_STR_YMD
          due_today == SelectSeq(deadlines, Today)
      IN  IF due_today = <<>>
            THEN Returned("No deadlines today. Keep up the great work!", <<>>)
          ELSE Returned("", [i \in 1..Len(due_today) |->
                               [task |-> due_today[i].task, label |-> "Due Today!"]])

get_todays_deadlines(deadlines, DATE_STR_YMD) ==
    IF deadlines = <<>> THEN Returned("No deadlines found.", <<>>)
    ELSE
      LET Today(d) == Get(d, "date", None) = DATE_STR_YMD
          due_today == SelectSeq(deadlines, Today)
      IN  IF due_today = <<>>
            THEN Returned("No deadlines today. Keep up the great work!", <<>>)
          ELSE Returned("", [i \in 1..Len(due_today) |->
                               [task |-> due_today[i].task, label |-> "Due Today!"]])

get_todays_events(events, DATE_STR_YMD) ==
    IF events = <<>> THEN Returned("No special events scheduled for today.", <<>>)
    ELSE
      LET Today(e) == Get(e, "date", None) = DATE_STR_YMD
          today_events == SelectSeq(events, Today)
      IN  IF today_events = <<>>
            THEN Returned("No special events scheduled for today.", <<>>)
          ELSE Returned("", [i \in 1..Len(today_events) |->
                               [event |-> today_events[i].event,
                                time |-> today_events[i].time,
                                location |-> today_events[i].location]])

\* ------------------------------------------------------------ load (22-29)
\* What open() and json.load() can do with a file.
FileStates == {"ok", "FileNotFoundError", "JSONDecodeError"}
LoadErrors == {"FileNotFoundError", "JSONDecodeError"}

\* load_json_data: the parsed list, or [] when an exception of the except
\* clause was raised.
load_json_data(file_state, content) ==
    IF file_state \in LoadErrors THEN <<>> ELSE content

\* ------------------------------------------------------- advice (87-124)
\* JSON bodies the advice service can answer with.  json_error is the
\* exception response.json() raises on a body that is not JSON ("" if none):
\* a RequestException in recent versions of requests, a ValueError before.
Candidate(has_content, parts) == [has_content |-> has_content, parts |-> parts]
Body(err, is_dict, cands) ==
    [json_error |-> err, is_dict |-> is_dict, candidates |-> cands]
GoodBody == Body("", TRUE, <<Candidate(TRUE, <<[text |-> "  Stay focused!\n"]>>)>>)
BadBodies ==
    { Body("", TRUE, <<>>),
      Body("", TRUE, <<Candidate(FALSE, <<>>)>>),
      Body("", TRUE, <<Candidate(TRUE, <<>>)>>),
      Body("", TRUE, <<Candidate(TRUE, <<[text |-> NoKey]>>)>>),
      Body("", FALSE, <<>>),
      Body("RequestsJSONDecodeError", TRUE, <<>>),
      Body("ValueError", TRUE, <<>>) }

\* What requests.post can come back with: a transport exception, or a
\* response with a status code and a body.
Response(err, status, body) == [error |-> err, status |-> status, body |-> body]
TransportErrors == {"Timeout", "ConnectionError"}
\* The exception classes under requests.exceptions.RequestException.
RequestException ==
    TransportErrors \cup {"HTTPError", "RequestsJSONDecodeError"}
AdviceResponses ==
    { Response(e, 0, GoodBody) : e \in TransportErrors }
        \cup { Response("", 500, GoodBody) }
        \cup { Response("", 200, b) : b \in BadBodies \cup {GoodBody} }
\* The delivery request sets no timeout (148).
DeliveryResponses ==
    { Response("ConnectionError", 0, GoodBody) }
        \cup { Response("", st, GoodBody) : st \in {200, 304, 404} }

\* response.raise_for_status(): HTTPError for a 4xx or 5xx status.
raise_for_status(response) ==
    IF response.status \in 400..599 THEN "HTTPError" ELSE ""

InstructionalAdvice ==
    "To get AI advice, set your GEMINI_API_KEY secret in GitHub Actions."
FallbackUnexpectedFormat ==
    "Couldn't generate advice today, but keep pushing forward! You can do it."
FallbackNetworkError ==
    "Could not fetch AI advice due to a network error. But remember to stay focused!"
FallbackUnexpectedError ==
    "An unexpected error occurred while getting advice. Have a great day!"

\* Variant: `if api_key is None`.
AdviceSkippedIfNone(api_key) == api_key = None

\* `if not api_key`: no request is made.
AdviceSkipped(api_key) == ~Truthy(api_key)

\* The exception the try block (105-117) raises on a response, "" if none.
AdviceTryRaises(response) ==
    IF response.error # "" THEN response.error
    ELSE IF raise_for_status(response) # "" THEN raise_for_status(response)
    ELSE IF response.body.json_error # "" THEN response.body.json_error
    ELSE IF ~response.body.is_dict THEN "AttributeError"
    ELSE IF /\ response.body.candidates # <<>>
            /\ response.body.candidates[1].has_content
            /\ response.body.candidates[1].parts # <<>>
            /\ response.body.candidates[1].parts[1].text = NoKey THEN "KeyError"
    ELSE ""

\* Variant: without the `except Exception` clause (122-124).
get_gemini_advice_no_catch_all(api_key, response) ==
    LET e == AdviceTryRaises(response)
        result == response.body
    IN  IF AdviceSkipped(api_key) THEN
          [raised |-> "", posts |-> 0, advice |-> InstructionalAdvice,
           printed |-> <<>>]
        ELSE IF e = "" THEN
          IF /\ result.candidates # <<>>
             /\ result.candidates[1].has_content
             /\ result.candidates[1].parts # <<>>
            THEN [raised |-> "", posts |-> 1,
                  advice |-> Strip(result.candidates[1].parts[1].text),
                  printed |-> <<>>]
          ELSE [raised |-> "", posts |-> 1, advice |-> FallbackUnexpectedFormat,
                printed |-> <<"Gemini API response format is unexpected">>]
        ELSE IF e \in RequestException THEN
          [raised |-> "", posts |-> 1, advice |-> FallbackNetworkError,
           printed |-> <<"Error calling Gemini API">>]
        ELSE [raised |-> e, posts |-> 1, advice |-> "", printed |-> <<>>]

\* get_gemini_advice when its request, if it makes one, comes back with
\* response: the exception it lets through, the requests.post calls it made,
\* the text it returns and what it printed.
get_gemini_advice(api_key, response) ==
    LET e == AdviceTryRaises(response)
        result == response.body
    IN  IF AdviceSkipped(api_key) THEN
          [raised |-> "", posts |-> 0, advice |-> InstructionalAdvice,
           printed |-> <<>>]
        ELSE IF e = "" THEN
          IF /\ result.candidates # <<>>
             /\ result.candidates[1].has_content
             /\ result.candidates[1].parts # <<>>
            THEN [raised |-> "", posts |-> 1,
                  advice |-> Strip(result.candidates[1].parts[1].text),
                  printed |-> <<>>]
          ELSE [raised |-> "", posts |-> 1, advice |-> FallbackUnexpectedFormat,
                printed |-> <<"Gemini API response format is unexpected">>]
        ELSE IF e \in RequestException THEN
          [raised |-> "", posts |-> 1, advice |-> FallbackNetworkError,
           printed |-> <<"Error calling Gemini API">>]
        ELSE
          [raised |-> "", posts |-> 1, advice |-> FallbackUnexpectedError,
           printed |-> <<"An unexpected error occurred with Gemini API">>]

\* ----------------------------------------------------- delivery (139-152)
\* The exception the try block (147-150) raises on a response, "" if none.
SendTryRaises(response) ==
    IF response.error # "" THEN response.error ELSE raise_for_status(response)

\* Variant: `except requests.exceptions.HTTPError`.
SendCatchesHTTPError(e) == e = "HTTPError"

\* `except requests.exceptions.RequestException`
SendCatches(e) == e \in RequestException

\* Variant: a failed request is posted a second time.
send_telegram_message_retry(response) ==
    LET e == SendTryRaises(response)
    IN  IF e = ""
          THEN [raised |-> "", posts |-> 1, printed |-> <<"Message sent successfully!">>]
        ELSE IF SendCatches(e)
          THEN [raised |-> "", posts |-> 2, printed |-> <<"Failed to send message">>]
        ELSE [raised |-> e, posts |-> 1, printed |-> <<>>]

\* send_telegram_message when its request comes back with response: the
\* exception it lets through, the requests.post calls it made, what it printed.
send_telegram_message(response) ==
    LET e == SendTryRaises(response)
    IN  IF e = ""
          THEN [raised |-> "", posts |-> 1, printed |-> <<"Message sent successfully!">>]
        ELSE IF SendCatches(e)
          THEN [raised |-> "", posts |-> 1, printed |-> <<"Failed to send message">>]
        ELSE [raised |-> e, posts |-> 1, printed |-> <<>>]

\* --------------------------------------------------------------- the run
VARIABLES
    pc,                 \* the statement of __main__ the run is at
    TODAY,              \* datetime.now(TIMEZONE) as a calendar date
    environ,            \* the three environment variables
    class_routine, self_learning_plan, deadlines, special_events,
    classes_section, learning_section, deadlines_section, events_section,
    ai_advice,          \* the text get_gemini_advice returned
    final_message,      \* the composed message
    http,               \* the outbound HTTP requests made, in order
    gemini_response,    \* what the advice request came back with
    telegram_response,  \* what the delivery request came back with
    stdout,             \* the lines printed
    raised,             \* the exception that ended the run and the function
                        \* that raised it, NoException if none
    exit_status         \* the exit status of the process, -1 while it runs

vars == <<pc, TODAY, environ, class_routine, self_learning_plan, deadlines,
          special_events, classes_section, learning_section, deadlines_section,
          events_section, ai_advice, final_message, http, gemini_response,
          telegram_response, stdout, raised, exit_status>>

EnvValues == {None, "", "set"}
NoException == [exc |-> "", in |-> ""]
NotBuilt == [raised |-> "", placeholder |-> "<not built>", lines |-> <<>>]
NoResponse == Response("<no request>", 0, GoodBody)
NoMessage == [date |-> "", classes |-> NotBuilt, learning |-> NotBuilt,
              deadlines |-> NotBuilt, events |-> NotBuilt, advice |-> ""]

DAY_NAME == DayNameOf(TODAY)
DATE_STR_YMD == DateStrYMD(TODAY)
DATE_STR_MONTH_DAY == DateStrMonthDay(TODAY)
FORMATTED_DATE == FormattedDate(TODAY)

Init ==
    /\ pc = "check_credentials"
    /\ TODAY \in TodayChoices
    /\ environ \in [{"TELEGRAM_BOT_TOKEN", "TELEGRAM_USER_ID", "GEMINI_API_KEY"}
                       -> EnvValues]
    /\ class_routine = <<>> /\ self_learning_plan = <<>>
    /\ deadlines = <<>> /\ special_events = <<>>
    /\ classes_section = NotBuilt /\ learning_section = NotBuilt
    /\ deadlines_section = NotBuilt /\ events_section = NotBuilt
    /\ ai_advice = ""
    /\ final_message = NoMessage
    /\ http = <<>>
    /\ gemini_response = NoResponse
    /\ telegram_response = NoResponse
    /\ stdout = <<>>
    /\ raised = NoException
    /\ exit_status = -1

data_vars == <<class_routine, self_learning_plan, deadlines, special_events>>
section_vars == <<classes_section, learning_section, deadlines_section,
                  events_section>>
net_vars == <<ai_advice, final_message, http, gemini_response, telegram_response>>

\* Variant: `and` in place of `or`.
CredentialsMissingBoth(token, user) == ~Truthy(token) /\ ~Truthy(user)

\* `if not TELEGRAM_BOT_TOKEN or not TELEGRAM_USER_ID` (162)
CredentialsMissing(token, user) == ~Truthy(token) \/ ~Truthy(user)

\* Lines 158-164.
CheckCredentials ==
    /\ pc = "check_credentials"
    /\ IF CredentialsMissing(environ["TELEGRAM_BOT_TOKEN"], environ["TELEGRAM_USER_ID"])
         THEN /\ stdout' = Append(stdout, "Error: TELEGRAM_BOT_TOKEN and TELEGRAM_USER_ID must be set")
              /\ exit_status' = 1
              /\ pc' = "exited"
         ELSE /\ pc' = "load_class_routine"
              /\ UNCHANGED <<stdout, exit_status>>
    /\ UNCHANGED <<TODAY, environ, data_vars, section_vars, net_vars, raised>>

\* Records loaded so far; a load draws a list that keeps the total in bound.
Loaded == Len(class_routine) + Len(self_learning_plan) + Len(deadlines)
              + Len(special_events)
LoadPrint(file_state, path) ==
    IF file_state \in LoadErrors THEN Append(stdout, "Error loading " \o path)
    ELSE stdout

\* Line 167.
LoadClassRoutine ==
    /\ pc = "load_class_routine"
    /\ \E fs \in FileStates, content \in ListsUpTo(ClassEntries, MaxRecords - Loaded) :
         /\ fs # "ok" => content = <<>>
         /\ class_routine' = load_json_data(fs, content)
         /\ stdout' = LoadPrint(fs, "routines/class_routine.json")
    /\ pc' = "load_self_learning"
    /\ UNCHANGED <<TODAY, environ, self_learning_plan, deadlines, special_events,
                   section_vars, net_vars, raised, exit_status>>

\* Line 168.
LoadSelfLearning ==
    /\ pc = "load_self_learning"
    /\ \E fs \in FileStates, content \in ListsUpTo(LearningTasks, MaxRecords - Loaded) :
         /\ fs # "ok" => content = <<>>
         /\ self_learning_plan' = load_json_data(fs, content)
         /\ stdout' = LoadPrint(fs, "routines/self_learning.json")
    /\ pc' = "load_deadlines"
    /\ UNCHANGED <<TODAY, environ, class_routine, deadlines, special_events,
                   section_vars, net_vars, raised, exit_status>>

\* Line 169.
LoadDeadlines ==
    /\ pc = "load_deadlines"
    /\ \E fs \in FileStates, content \in ListsUpTo(Deadlines, MaxRecords - Loaded) :
         /\ fs # "ok" => content = <<>>
         /\ deadlines' = load_json_data(fs, content)
         /\ stdout' = LoadPrint(fs, "routines/deadlines.json")
    /\ pc' = "load_special_events"
    /\ UNCHANGED <<TODAY, environ, class_routine, self_learning_plan, special_events,
                   section_vars, net_vars, raised, exit_status>>

\* Line 170.
LoadSpecialEvents ==
    /\ pc = "load_special_events"
    /\ \E fs \in FileStates, content \in ListsUpTo(SpecialEvents, MaxRecords - Loaded) :
         /\ fs # "ok" => content = <<>>
         /\ special_events' = load_json_data(fs, content)
         /\ stdout' = LoadPrint(fs, "routines/special_events.json")
    /\ pc' = "build_classes"
    /\ UNCHANGED <<TODAY, environ, class_routine, self_learning_plan, deadlines,
                   section_vars, net_vars, raised, exit_status>>

\* An exception nothing catches ends the process with status 1.
Uncaught(e, where) ==
    /\ raised' = [exc |-> e, in |-> where]
    /\ exit_status' = 1
    /\ pc' = "exited"

\* Line 173.
BuildClasses ==
    /\ pc = "build_classes"
    /\ LET r == get_todays_classes(class_routine, DAY_NAME)
       IN  IF r.raised # ""
             THEN Uncaught(r.raised, "get_todays_classes") /\ UNCHANGED classes_section
             ELSE /\ classes_section' = r
                  /\ pc' = "build_learning"
                  /\ UNCHANGED <<raised, exit_status>>
    /\ UNCHANGED <<TODAY, environ, data_vars, learning_section, deadlines_section,
                   events_section, net_vars, stdout>>

\* Line 174.
BuildLearning ==
    /\ pc = "build_learning"
    /\ LET r == get_todays_learning(self_learning_plan, DATE_STR_MONTH_DAY)
       IN  IF r.raised # ""
             THEN Uncaught(r.raised, "get_todays_learning") /\ UNCHANGED learning_section
             ELSE /\ learning_section' = r
                  /\ pc' = "build_deadlines"
                  /\ UNCHANGED <<raised, exit_status>>
    /\ UNCHANGED <<TODAY, environ, data_vars, classes_section, deadlines_section,
                   events_section, net_vars, stdout>>

\* Line 175.
BuildDeadlines ==
    /\ pc = "build_deadlines"
    /\ LET r == get_todays_deadlines(deadlines, DATE_STR_YMD)
       IN  IF r.raised # ""
             THEN Uncaught(r.raised, "get_todays_deadlines") /\ UNCHANGED deadlines_section
             ELSE /\ deadlines_section' = r
                  /\ pc' = "build_events"
                  /\ UNCHANGED <<raised, exit_status>>
    /\ UNCHANGED <<TODAY, environ, data_vars, classes_section, learning_section,
                   events_section, net_vars, stdout>>

\* Line 176.
BuildEvents ==
    /\ pc = "build_events"
    /\ LET r == get_todays_events(special_events, DATE_STR_YMD)
       IN  IF r.raised # ""
             THEN Uncaught(r.raised, "get_todays_events") /\ UNCHANGED events_section
             ELSE /\ events_section' = r
                  /\ pc' = "get_advice"
                  /\ UNCHANGED <<raised, exit_status>>
    /\ UNCHANGED <<TODAY, environ, data_vars, classes_section, learning_section,
                   deadlines_section, net_vars, stdout>>

GeminiRequest == "POST generativelanguage.googleapis.com"
TelegramRequest == "POST api.telegram.org"

\* Lines 179-196: the summary is composed and get_gemini_advice is called.
GetAdvice ==
    /\ pc = "get_advice"
    /\ \E response \in AdviceResponses :
         LET r == get_gemini_advice(environ["GEMINI_API_KEY"], response)
         IN  /\ http' = http \o [i \in 1..r.posts |-> GeminiRequest]
             /\ gemini_response' = IF r.posts = 0 THEN NoResponse ELSE response
             /\ stdout' = stdout \o r.printed
             /\ IF r.raised # ""
                  THEN Uncaught(r.raised, "get_gemini_advice") /\ UNCHANGED ai_advice
                  ELSE /\ ai_advice' = r.advice
                       /\ pc' = "send"
                       /\ UNCHANGED <<raised, exit_status>>
    /\ UNCHANGED <<TODAY, environ, data_vars, section_vars, final_message,
                   telegram_response>>

\* Lines 197-215: the message is composed and printed, and
\* send_telegram_message posts it; the script ends after the call.  The
\* message is kept up to its last line, the productivity tip, which is a
\* random.choice that nothing else reads.
SendMessage ==
    /\ pc = "send"
    /\ \E response \in DeliveryResponses :
         LET r == send_telegram_message(response)
         IN  /\ final_message' =
                    [date |-> FORMATTED_DATE, classes |-> classes_section,
                     learning |-> learning_section, deadlines |-> deadlines_section,
                     events |-> events_section, advice |-> ai_advice]
             /\ http' = http \o [i \in 1..r.posts |-> TelegramRequest]
             /\ telegram_response' = response
             /\ stdout' = (stdout \o <<"--- Sending Message ---">>) \o r.printed
             /\ IF r.raised # ""
                  THEN Uncaught(r.raised, "send_telegram_message")
                  ELSE /\ pc' = "exited"
                       /\ exit_status' = 0
                       /\ UNCHANGED raised
    /\ UNCHANGED <<TODAY, environ, data_vars, section_vars, ai_advice,
                   gemini_response>>

Next ==
    \/ CheckCredentials
    \/ LoadClassRoutine
    \/ LoadSelfLearning
    \/ LoadDeadlines
    \/ LoadSpecialEvents
    \/ BuildClasses
    \/ BuildLearning
    \/ BuildDeadlines
    \/ BuildEvents
    \/ GetAdvice
    \/ SendMessage

Spec == Init /\ [][Next]_vars

\* ===================================================================
\* Properties
\* ===================================================================
Count(s, x) == Cardinality({ i \in DOMAIN s : s[i] = x })
Absent(v) == v = None \/ v = ""
RequiredCredentialAbsent ==
    Absent(environ["TELEGRAM_BOT_TOKEN"]) \/ Absent(environ["TELEGRAM_USER_ID"])
Exited == pc = "exited"

\* C1: when the bot token or the recipient id is absent or empty, no HTTP
\* request is ever made, and once the credential check has run the process
\* has exited with status 1.
C1_MissingCredentialExits1NoHTTP ==
    RequiredCredentialAbsent =>
        /\ http = <<>>
        /\ pc # "check_credentials" => (Exited /\ exit_status = 1)
C1_Witness ==
    /\ Exited /\ exit_status = 1 /\ http = <<>>
    /\ environ["TELEGRAM_BOT_TOKEN"] = "set"
    /\ environ["TELEGRAM_USER_ID"] = None

\* The advice request was made and failed: a transport error, a status that
\* is not 2xx, or a body that does not have the expected shape.
AdviceRequestFailed ==
    /\ gemini_response # NoResponse
    /\ \/ gemini_response.error # ""
       \/ gemini_response.status \notin 200..299
       \/ gemini_response.body # GoodBody
FallbackStrings ==
    {FallbackUnexpectedFormat, FallbackNetworkError, FallbackUnexpectedError}

C3_AtMostOneRequestEach ==
    /\ Count(http, TelegramRequest) <= 1
    /\ Count(http, GeminiRequest) <= 1
C3_Witness ==
    /\ Exited
    /\ telegram_response.status = 404
    /\ gemini_response.error = "ConnectionError"
    /\ http = <<GeminiRequest, TelegramRequest>>

\* The delivery request was made and failed: a transport error or a status
\* that is not 2xx.
DeliveryRequestFailed ==
    /\ telegram_response # NoResponse
    /\ \/ telegram_response.error # ""
       \/ telegram_response.status \notin 200..299

\* C4: with both credentials present, a failed delivery request ends the run
\* with exit status 0 and no exception, as a successful one does; a transport
\* error or a 4xx/5xx status is printed as a failure.
C4_DeliveryFailureExits0 ==
    (Exited /\ telegram_response # NoResponse) =>
        /\ exit_status = 0
        /\ raised = NoException
        /\ (telegram_response.error # "" \/ telegram_response.status >= 400)
              => stdout[Len(stdout)] = "Failed to send message"
C4_Witness ==
    /\ Exited /\ DeliveryRequestFailed
    /\ telegram_response.error = "ConnectionError"
    /\ exit_status = 0

\* C9: with the advice API key absent or empty, no advice request is made,
\* get_gemini_advice returns the instructional string, and a run that
\* completes has made exactly one HTTP request, the delivery request.
C9_NoKeyNoAdviceRequest ==
    Absent(environ["GEMINI_API_KEY"]) =>
        /\ Count(http, GeminiRequest) = 0
        /\ gemini_response = NoResponse
        /\ pc = "send" => ai_advice = InstructionalAdvice
        /\ (Exited /\ exit_status = 0) =>
              /\ ai_advice = InstructionalAdvice
              /\ final_message.advice = InstructionalAdvice
              /\ http = <<TelegramRequest>>
C9_Witness ==
    /\ environ["GEMINI_API_KEY"] = ""
    /\ Exited /\ exit_status = 0
    /\ ai_advice = InstructionalAdvice
    /\ http = <<TelegramRequest>>

\* Day names equal to today's up to letter case.
CaseVariants(name) ==
    CASE name = "Wednesday" -> {"Wednesday", "wednesday", "WEDNESDAY"}
      [] name = "Thursday"  -> {"Thursday", "thursday", "THURSDAY"}
      [] OTHER -> {name}
OnToday(c) == c.day \in CaseVariants(DAY_NAME)
\* Minutes after midnight of a start time read on the 12-hour clock.
Clock12Minutes(s) ==
    IF s.ap = "AM" THEN (IF s.hh = 12 THEN 0 ELSE s.hh) * 60 + s.mm
    ELSE (IF s.hh = 12 THEN 12 ELSE s.hh + 12) * 60 + s.mm
Malformed(s) == ~(s.hh \in 1..12 /\ s.mm \in 0..59 /\ s.ap \in {"AM", "PM"})
Rendered(c) == [course |-> c.course, time |-> c.time, room |-> c.room,
                floor |-> c.floor]
TodayHasMalformed ==
    \E i \in DOMAIN class_routine :
        OnToday(class_routine[i]) /\ Malformed(class_routine[i].time.start)

\* C6: once the classes section is built from a non-empty routine, its lines
\* are exactly the entries whose day is today's day name up to letter case,
\* each rendered once, in non-decreasing order of 12-hour-clock start time.
C6_ClassesFilteredAndSorted ==
    (classes_section # NotBuilt /\ class_routine # <<>>) =>
        LET today == { i \in DOMAIN class_routine : OnToday(class_routine[i]) }
            lines == classes_section.lines
        IN  /\ Len(lines) = Cardinality(today)
            /\ \A i \in today :
                  Count(lines, Rendered(class_routine[i])) =
                    Cardinality({ j \in today :
                        Rendered(class_routine[j]) = Rendered(class_routine[i]) })
            /\ \A i \in 1..(Len(lines) - 1) :
                  Clock12Minutes(lines[i].time.start)
                    <= Clock12Minutes(lines[i + 1].time.start)
            /\ today = {} <=>
                  classes_section.placeholder = "No classes today. Enjoy the free time!"
C6_Witness ==
    /\ DAY_NAME = "Wednesday"
    /\ Len(class_routine) = 2
    /\ class_routine[1].day = "WEDNESDAY" /\ class_routine[2].day = "WEDNESDAY"
    /\ class_routine[1].time.start = Clock(1, 0, "PM")
    /\ class_routine[2].time.start = Clock(12, 30, "PM")
    /\ classes_section.lines =
          <<Rendered(class_routine[2]), Rendered(class_routine[1])>>

\* C7: a builder given an empty list raises nothing and returns its
\* placeholder; a file that failed to load yields the empty list; and a run
\* whose four lists are all empty ends with status 0, the four placeholders in
\* the message and the delivery request made.
C7_EmptyListsGivePlaceholders ==
    /\ class_routine = <<>> =>
          /\ raised.in # "get_todays_classes"
          /\ classes_section \in
                {NotBuilt, Returned("No classes found in routine file.", <<>>)}
    /\ self_learning_plan = <<>> =>
          /\ raised.in # "get_todays_learning"
          /\ learning_section \in
                {NotBuilt, Returned("No self-learning plan found.", <<>>)}
    /\ deadlines = <<>> =>
          /\ raised.in # "get_todays_deadlines"
          /\ deadlines_section \in {NotBuilt, Returned("No deadlines found.", <<>>)}
    /\ special_events = <<>> =>
          /\ raised.in # "get_todays_events"
          /\ events_section \in
                {NotBuilt, Returned("No special events scheduled for today.", <<>>)}
    /\ Count(stdout, "Error loading routines/class_routine.json") > 0
          => class_routine = <<>>
    /\ Count(stdout, "Error loading routines/self_learning.json") > 0
          => self_learning_plan = <<>>
    /\ Count(stdout, "Error loading routines/deadlines.json") > 0
          => deadlines = <<>>
    /\ Count(stdout, "Error loading routines/special_events.json") > 0
          => special_events = <<>>
    /\ ( /\ Exited /\ ~RequiredCredentialAbsent
         /\ class_routine = <<>> /\ self_learning_plan = <<>>
         /\ deadlines = <<>> /\ special_events = <<>> ) =>
          /\ exit_status = 0
          /\ final_message.classes.placeholder = "No classes found in routine file."
          /\ final_message.learning.placeholder = "No self-learning plan found."
          /\ final_message.deadlines.placeholder = "No deadlines found."
          /\ final_message.events.placeholder = "No special events scheduled for today."
          /\ Count(http, TelegramRequest) = 1
C7_Witness ==
    /\ Exited /\ exit_status = 0
    /\ class_routine = <<>> /\ self_learning_plan = <<>>
    /\ deadlines = <<>> /\ special_events = <<>>
    /\ Count(stdout, "Error loading routines/class_routine.json") = 1
    /\ final_message.classes = Returned("No classes found in routine file.", <<>>)
    /\ final_message.learning = Returned("No self-learning plan found.", <<>>)
    /\ final_message.deadlines = Returned("No deadlines found.", <<>>)
    /\ final_message.events = Returned("No special events scheduled for today.", <<>>)
    /\ Count(http, TelegramRequest) = 1

HasUndated == \E i \in DOMAIN deadlines : deadlines[i].date = NoKey
IsDated(d) == d.date # NoKey
UndatedTasks == { deadlines[i].task : i \in { j \in DOMAIN deadlines :
                                                deadlines[j].date = NoKey } }

\* C8: with a record lacking `date` in the deadlines list, the deadlines
\* builder raises nothing, renders no line for that record, renders the
\* lines it renders for the list without it, and the run is not ended by it.
C8_UndatedDeadlineSkipped ==
    HasUndated =>
        /\ raised.in # "get_todays_deadlines"
        /\ pc \in {"build_events", "get_advice", "send"}
              => deadlines_section # NotBuilt
        /\ deadlines_section # NotBuilt =>
              /\ \A i \in DOMAIN deadlines_section.lines :
                    deadlines_section.lines[i].task \notin UndatedTasks
              /\ deadlines_section.lines =
                    get_todays_deadlines(SelectSeq(deadlines, IsDated),
                                         DATE_STR_YMD).lines
        /\ (Exited /\ raised.in # "get_todays_classes") =>
              /\ exit_status = 0
              /\ final_message.deadlines = deadlines_section
C8_Witness ==
    /\ Exited /\ exit_status = 0
    /\ Len(deadlines) = 2
    /\ deadlines[1].date = NoKey
    /\ deadlines[2].date = DATE_STR_YMD
    /\ final_message.deadlines.lines =
          <<[task |-> deadlines[2].task, label |-> "Due Today!"]>>

\* C10: when an entry for today has a start time that does not parse, the
\* run ends in get_todays_classes with a ValueError and exit status 1, before
\* any section is built, any HTTP request made or any message composed;
\* without such an entry get_todays_classes raises nothing, whatever the time
\* strings of entries for other days.
C10_MalformedTimeTodayIsFatal ==
    /\ TodayHasMalformed =>
          /\ pc \in {"load_self_learning", "load_deadlines", "load_special_events",
                      "build_classes", "exited"}
          /\ section_vars = <<NotBuilt, NotBuilt, NotBuilt, NotBuilt>>
          /\ http = <<>>
          /\ final_message = NoMessage
          /\ exit_status # 0
          /\ Exited => /\ raised = [exc |-> "ValueError", in |-> "get_todays_classes"]
                       /\ exit_status = 1
    /\ ~TodayHasMalformed =>
          /\ raised.in # "get_todays_classes"
          /\ pc \in {"build_learning", "build_deadlines", "build_events",
                      "get_advice", "send"} => classes_section # NotBuilt
C10_Witness ==
    /\ Exited
    /\ Len(class_routine) = 1
    /\ OnToday(class_routine[1])
    /\ Malformed(class_routine[1].time.start)
    /\ raised = [exc |-> "ValueError", in |-> "get_todays_classes"]
    /\ exit_status = 1

\* Calendar reading of the YYYY-MM-DD strings of the deadlines file: the day
\* of the year 2025, and the abbreviated month and day.
DayOfYear(ymd) ==
    CASE ymd = "2025-07-01" -> 182
      [] ymd = "2025-07-16" -> 197
      [] ymd = "2025-07-17" -> 198
      [] ymd = "2025-07-20" -> 201
MonthDay(ymd) ==
    CASE ymd = "2025-07-01" -> "Jul 01"
      [] ymd = "2025-07-16" -> "Jul 16"
      [] ymd = "2025-07-17" -> "Jul 17"
      [] ymd = "2025-07-20" -> "Jul 20"
DaysBeforeMonth == <<0, 31, 59, 90, 120, 151, 181, 212, 243, 273, 304, 334>>
TodayOfYear == DaysBeforeMonth[TODAY.month] + TODAY.day
DaysUntil(d) == DayOfYear(d.date) - TodayOfYear
DueLabel(d) ==
    CASE DaysUntil(d) = 0 -> "Due Today!"
      [] DaysUntil(d) = 1 -> "Due Tomorrow!"
      [] OTHER -> "Due in " \o Digit(DaysUntil(d)) \o " days ("
                     \o MonthDay(d.date) \o ")"
DateOfTask(t) == (CHOOSE d \in Deadlines : d.task = t).date

\* C5: once the deadlines section is built, every dated record before today
\* has no line, every dated record of today or later has a line labelled
\* "Due Today!", "Due Tomorrow!" or "Due in N days (Mon DD)" by its distance
\* from today, and the lines are in ascending order of date.
C5_UpcomingDeadlinesRendered ==
    deadlines_section # NotBuilt =>
        LET lines == deadlines_section.lines
        IN  /\ \A i \in DOMAIN deadlines :
                  LET d == deadlines[i]
                  IN  d.date # NoKey =>
                        IF DaysUntil(d) < 0
                          THEN \A j \in DOMAIN lines : lines[j].task # d.task
                          ELSE \E j \in DOMAIN lines :
                                 /\ lines[j].task = d.task
                                 /\ lines[j].label = DueLabel(d)
            /\ \A j \in 1..(Len(lines) - 1) :
                  DayOfYear(DateOfTask(lines[j].task))
                    <= DayOfYear(DateOfTask(lines[j + 1].task))

====
